---- MODULE Spec2Model ----
(***************************************************************************)
(* Model of @perkos/config (src/src/index.ts): the environment accessors,  *)
(* the typed configuration builder createConfig and its companion          *)
(* validateConfig, the route-to-price mapping and the feature flags.       *)
(*                                                                         *)
(* Environment values are JavaScript strings, modelled as sequences of     *)
(* one-character strings so that toLowerCase, parseFloat and JSON.parse    *)
(* are computed character by character.  Variable names and messages are   *)
(* TLA+ strings, concatenated with \o as the template literals do.         *)
(***************************************************************************)
EXTENDS Integers, Sequences, FiniteSets, TLC

(***************************************************************************)
(* JavaScript values.  Each type has its own record field, so two values   *)
(* of different types are simply unequal.                                  *)
(***************************************************************************)
Undefined == [undefined |-> TRUE]
Null == [null |-> TRUE]
Str(s) == [str |-> s]
Bool(b) == [bool |-> b]
\* a finite number sign * mant * 10^exp, mant without trailing zeros
Num(sign, mant, exp) == [num |-> <<sign, mant, exp>>]
NaN == [nan |-> TRUE]
Infinity(sign) == [inf |-> sign]
Arr(items) == [arr |-> items]
Obj(members) == [obj |-> members]

IsStr(v) == DOMAIN v = {"str"}

(***************************************************************************)
(* Characters                                                              *)
(***************************************************************************)
UpperCase == <<"A","B","C","D","E","F","G","H","I","J","K","L","M",
               "N","O","P","Q","R","S","T","U","V","W","X","Y","Z">>
LowerCase == <<"a","b","c","d","e","f","g","h","i","j","k","l","m",
               "n","o","p","q","r","s","t","u","v","w","x","y","z">>
Digits == <<"0","1","2","3","4","5","6","7","8","9">>
WhiteSpace == {" ", "\t", "\n", "\r"}

IndexOf(c, table) ==
  IF \E i \in DOMAIN table : table[i] = c
  THEN CHOOSE i \in DOMAIN table : table[i] = c
  ELSE 0

IsDigit(c) == IndexOf(c, Digits) # 0
DigitValue(c) == IndexOf(c, Digits) - 1

\* String.prototype.toLowerCase on the ASCII range
toLowerCase(s) ==
  [i \in DOMAIN s |->
     IF IndexOf(s[i], UpperCase) # 0 THEN LowerCase[IndexOf(s[i], UpperCase)]
     ELSE s[i]]

\* the literal "Infinity" / "true" / ... as characters
InfinityLit == <<"I","n","f","i","n","i","t","y">>
TrueLit == <<"t","r","u","e">>
FalseLit == <<"f","a","l","s","e">>
NullLit == <<"n","u","l","l">>

\* s has lit at position p (1-based)
StartsWithAt(s, p, lit) ==
  /\ p + Len(lit) - 1 <= Len(s)
  /\ \A i \in 1..Len(lit) : s[p + i - 1] = lit[i]

(***************************************************************************)
(* parseFloat: skip leading white space, take the longest prefix that is a *)
(* StrDecimalLiteral, NaN when there is none.                              *)
(***************************************************************************)
RECURSIVE SkipWhiteSpace(_, _)
SkipWhiteSpace(s, p) ==
  IF p <= Len(s) /\ s[p] \in WhiteSpace THEN SkipWhiteSpace(s, p + 1) ELSE p

\* first position at or after p that holds no digit
RECURSIVE SkipDigits(_, _)
SkipDigits(s, p) ==
  IF p <= Len(s) /\ IsDigit(s[p]) THEN SkipDigits(s, p + 1) ELSE p

\* value of the digits s[p..q-1], read after the digits already in acc
RECURSIVE DigitsValue(_, _, _, _)
DigitsValue(s, p, q, acc) ==
  IF p >= q THEN acc ELSE DigitsValue(s, p + 1, q, acc * 10 + DigitValue(s[p]))

RECURSIVE Normalize(_, _, _)
Normalize(sign, mant, exp) ==
  IF mant = 0 THEN Num(sign, 0, 0)
  ELSE IF mant % 10 = 0 THEN Normalize(sign, mant \div 10, exp + 1)
  ELSE Num(sign, mant, exp)

\* A decimal literal of s starting at p is read in stages, each handing the
\* positions it found to the next: digits [. digits] [exponent] or
\* . digits [exponent].  leadingDot says whether ".5" (no integer digits)
\* is a literal, trailingDot whether "5." is.  The result is
\* [ok, end, value]: whether there is a literal, the position after the
\* longest one, and its value.
Literal(ok, end, sign, mant, exp) ==
  [ok |-> ok, end |-> end,
   value |-> IF ok THEN Normalize(sign, mant, exp) ELSE NaN]

\* the exponent digits are s[e0..e1-1]; without a digit there is no exponent
WithExponent(s, sign, ok, m1, mant, scale, e0, e1, esign) ==
  IF e1 > e0
  THEN Literal(ok, e1, sign, mant, esign * DigitsValue(s, e0, e1, 0) - scale)
  ELSE Literal(ok, m1, sign, mant, 0 - scale)

\* the mantissa ends before m1 and is mant / 10^scale
WithMantissa(s, sign, ok, m1, mant, scale) ==
  IF m1 <= Len(s) /\ s[m1] \in {"e", "E"}
  THEN IF m1 + 1 <= Len(s) /\ s[m1 + 1] \in {"+", "-"}
       THEN WithExponent(s, sign, ok, m1, mant, scale, m1 + 2,
                         SkipDigits(s, m1 + 2),
                         IF s[m1 + 1] = "-" THEN -1 ELSE 1)
       ELSE WithExponent(s, sign, ok, m1, mant, scale, m1 + 1,
                         SkipDigits(s, m1 + 1), 1)
  ELSE Literal(ok, m1, sign, mant, 0 - scale)

\* the integer digits are s[p..i1-1], s[i1] is "." and the fraction digits
\* are s[i1+1..f1-1]
WithFraction(s, p, i1, f1, sign, leadingDot, trailingDot) ==
  IF (i1 > p \/ leadingDot) /\ (f1 > i1 + 1 \/ (trailingDot /\ i1 > p))
  THEN WithMantissa(s, sign, TRUE, f1,
                    DigitsValue(s, i1 + 1, f1, DigitsValue(s, p, i1, 0)),
                    f1 - (i1 + 1))
  ELSE WithMantissa(s, sign, i1 > p, i1, DigitsValue(s, p, i1, 0), 0)

\* the integer digits are s[p..i1-1]
WithInteger(s, p, i1, sign, leadingDot, trailingDot) ==
  IF i1 <= Len(s) /\ s[i1] = "."
  THEN WithFraction(s, p, i1, SkipDigits(s, i1 + 1), sign, leadingDot, trailingDot)
  ELSE WithMantissa(s, sign, i1 > p, i1, DigitsValue(s, p, i1, 0), 0)

DecimalLiteral(s, p, sign, leadingDot, trailingDot) ==
  WithInteger(s, p, SkipDigits(s, p), sign, leadingDot, trailingDot)

\* the literal after the white space, with its sign if it has one
SignedLiteral(s, p) ==
  IF p <= Len(s) /\ s[p] \in {"+", "-"}
  THEN IF StartsWithAt(s, p + 1, InfinityLit)
       THEN Infinity(IF s[p] = "-" THEN -1 ELSE 1)
       ELSE DecimalLiteral(s, p + 1, IF s[p] = "-" THEN -1 ELSE 1, TRUE, TRUE).value
  ELSE IF StartsWithAt(s, p, InfinityLit) THEN Infinity(1)
  ELSE DecimalLiteral(s, p, 1, TRUE, TRUE).value

parseFloat(s) == SignedLiteral(s, SkipWhiteSpace(s, 1))

isNaN(v) == v = NaN

(***************************************************************************)
(* JSON.parse: a recursive-descent reading of the JSON grammar.  A parse   *)
(* is [ok, end, value]: whether a value was read at p, the position after  *)
(* it, and the value.  Of the string escapes, \b and \uXXXX are outside    *)
(* the alphabet of the model and are not read.                             *)
(***************************************************************************)
Fail == [ok |-> FALSE, end |-> 0, value |-> Undefined]
Parsed(end, value) == [ok |-> TRUE, end |-> end, value |-> value]

Escapes == <<"\"", "\\", "/", "n", "r", "t", "f">>
Escaped == <<"\"", "\\", "/", "\n", "\r", "\t", "\f">>

\* the characters of a string literal whose opening quote is before p
RECURSIVE ParseChars(_, _, _)
ParseChars(s, p, acc) ==
  IF p > Len(s) THEN Fail
  ELSE IF s[p] = "\"" THEN Parsed(p + 1, Str(acc))
  ELSE IF s[p] = "\\"
    THEN IF p + 1 <= Len(s) /\ IndexOf(s[p + 1], Escapes) # 0
         THEN ParseChars(s, p + 2, Append(acc, Escaped[IndexOf(s[p + 1], Escapes)]))
         ELSE Fail
  ELSE IF s[p] \in {"\t", "\n", "\r", "\f"} THEN Fail
  ELSE ParseChars(s, p + 1, Append(acc, s[p]))

ParseString(s, p) ==
  IF p <= Len(s) /\ s[p] = "\"" THEN ParseChars(s, p + 1, <<>>) ELSE Fail

ParsedLiteral(lit) == Parsed(lit.end, lit.value)

\* a number whose digits start at q: no leading zero, no bare point
NumberAt(s, q, sign) ==
  IF q > Len(s) \/ ~IsDigit(s[q]) THEN Fail
  ELSE IF s[q] = "0" /\ q + 1 <= Len(s) /\ IsDigit(s[q + 1]) THEN Fail
  ELSE ParsedLiteral(DecimalLiteral(s, q, sign, FALSE, FALSE))

ParseNumber(s, p) ==
  IF p <= Len(s) /\ s[p] = "-" THEN NumberAt(s, p + 1, -1) ELSE NumberAt(s, p, 1)

\* obj[key] = value: a repeated key keeps its place and takes the new value
PutMember(members, key, value) ==
  IF \E i \in DOMAIN members : members[i][1] = key
  THEN [i \in DOMAIN members |->
          IF members[i][1] = key THEN <<key, value>> ELSE members[i]]
  ELSE Append(members, <<key, value>>)

RECURSIVE ParseValue(_, _)
RECURSIVE ParseElements(_, _, _)
RECURSIVE ParseMembers(_, _, _)

\* the element read is v, the next token is at q: "," and more, or "]"
ElementsAfter(s, acc, v, q) ==
  IF q > Len(s) THEN Fail
  ELSE IF s[q] = "," THEN ParseElements(s, q + 1, Append(acc, v.value))
  ELSE IF s[q] = "]" THEN Parsed(q + 1, Arr(Append(acc, v.value)))
  ELSE Fail

ElementRead(s, acc, v) ==
  IF ~v.ok THEN Fail ELSE ElementsAfter(s, acc, v, SkipWhiteSpace(s, v.end))

\* after "[" or ",": a value, then "," and more elements, or "]"
ParseElements(s, p, acc) == ElementRead(s, acc, ParseValue(s, p))

\* the member read is k : v, the next token is at q: "," and more, or "}"
MembersAfter(s, acc, k, v, q) ==
  IF q > Len(s) THEN Fail
  ELSE IF s[q] = ","
    THEN ParseMembers(s, q + 1, PutMember(acc, k.value.str, v.value))
  ELSE IF s[q] = "}"
    THEN Parsed(q + 1, Obj(PutMember(acc, k.value.str, v.value)))
  ELSE Fail

MemberRead(s, acc, k, v) ==
  IF ~v.ok THEN Fail ELSE MembersAfter(s, acc, k, v, SkipWhiteSpace(s, v.end))

\* the key read is k, the next token is at c: ":" and the value
KeyRead(s, acc, k, c) ==
  IF c > Len(s) \/ s[c] # ":" THEN Fail
  ELSE MemberRead(s, acc, k, ParseValue(s, c + 1))

MemberKey(s, acc, k) ==
  IF ~k.ok THEN Fail ELSE KeyRead(s, acc, k, SkipWhiteSpace(s, k.end))

\* after "{" or ",": "key" : value, then "," and more members, or "}"
ParseMembers(s, p, acc) == MemberKey(s, acc, ParseString(s, SkipWhiteSpace(s, p)))

\* the value whose first character is s[p]; q is the next token after it
ValueAt(s, p, q) ==
  IF p > Len(s) THEN Fail
  ELSE IF s[p] = "{"
    THEN IF q <= Len(s) /\ s[q] = "}" THEN Parsed(q + 1, Obj(<<>>))
         ELSE ParseMembers(s, p + 1, <<>>)
  ELSE IF s[p] = "["
    THEN IF q <= Len(s) /\ s[q] = "]" THEN Parsed(q + 1, Arr(<<>>))
         ELSE ParseElements(s, p + 1, <<>>)
  ELSE IF s[p] = "\"" THEN ParseString(s, p)
  ELSE IF StartsWithAt(s, p, TrueLit) THEN Parsed(p + 4, Bool(TRUE))
  ELSE IF StartsWithAt(s, p, FalseLit) THEN Parsed(p + 5, Bool(FALSE))
  ELSE IF StartsWithAt(s, p, NullLit) THEN Parsed(p + 4, Null)
  ELSE ParseNumber(s, p)

ValueFrom(s, p) == ValueAt(s, p, SkipWhiteSpace(s, p + 1))

ParseValue(s, p0) == ValueFrom(s, SkipWhiteSpace(s, p0))

\* the whole text must be one value and white space
WholeText(s, r) ==
  IF r.ok /\ SkipWhiteSpace(s, r.end) > Len(s)
  THEN [ok |-> TRUE, value |-> r.value]
  ELSE [ok |-> FALSE, value |-> Undefined]

\* JSON.parse(s): [ok |-> FALSE] stands for the SyntaxError it throws
JSONparse(s) == WholeText(s, ParseValue(s, 1))

(***************************************************************************)
(* The environment and the callbacks                                       *)
(***************************************************************************)
\* process.env[name]: the value as a string, undefined when it is not set
Lookup(environ, name) ==
  IF name \in DOMAIN environ THEN Str(environ[name]) ELSE Undefined

\* rule.validator(raw) and rule.transform(raw) for the callbacks of the model:
\* isShort is  v => v.length <= 3,  length is  v => v.length
CallValidator(name, raw) == CASE name = "isShort" -> Len(raw) <= 3
CallTransform(name, raw) == CASE name = "length" -> Normalize(1, Len(raw), 0)

\* what a call returns or throws
Returned(value) == [threw |-> FALSE, error |-> "", value |-> value]
Threw(message) == [threw |-> TRUE, error |-> message, value |-> Undefined]

(***************************************************************************)
(* Environment accessors                                                   *)
(***************************************************************************)
\* value ?? defaultValue
OrDefault(value, defaultValue) ==
  IF value # Undefined THEN value ELSE defaultValue

getEnv(environ, key, defaultValue) ==
  Returned(OrDefault(Lookup(environ, key), defaultValue))

getRequiredEnv(environ, key) ==
  IF Lookup(environ, key) \in {Undefined, Str(<<>>)}
  THEN Threw("Required environment variable " \o key \o " is not set")
  ELSE Returned(Lookup(environ, key))

\* isNaN(parsed) ? defaultValue : parsed
UnlessNaN(parsed, defaultValue) ==
  IF isNaN(parsed) THEN defaultValue ELSE parsed

\* mutant: the parsed value is returned without the NaN test
getEnvNumber_NoNaNTest(environ, key, defaultValue) ==
  IF key \notin DOMAIN environ THEN Returned(defaultValue)
  ELSE Returned(parseFloat(environ[key]))

getEnvNumber(environ, key, defaultValue) ==
  IF key \notin DOMAIN environ THEN Returned(defaultValue)
  ELSE Returned(UnlessNaN(parseFloat(environ[key]), defaultValue))

\* value.toLowerCase() === "true" || value === "1"
IsTrue(value) == toLowerCase(value) = TrueLit \/ value = <<"1">>

\* mutant: the empty string is taken for an absent variable (!value)
getEnvBoolean_EmptyIsAbsent(environ, key, defaultValue) ==
  IF key \notin DOMAIN environ \/ Lookup(environ, key) = Str(<<>>)
  THEN Returned(defaultValue)
  ELSE Returned(Bool(IsTrue(environ[key])))

getEnvBoolean(environ, key, defaultValue) ==
  IF key \notin DOMAIN environ THEN Returned(defaultValue)
  ELSE Returned(Bool(IsTrue(environ[key])))

\* try { return JSON.parse(value) } catch { return defaultValue }
UnlessSyntaxError(parsed, defaultValue) ==
  IF parsed.ok THEN parsed.value ELSE defaultValue

getEnvJson(environ, key, defaultValue) ==
  IF key \notin DOMAIN environ THEN Returned(defaultValue)
  ELSE Returned(UnlessSyntaxError(JSONparse(environ[key]), defaultValue))

(***************************************************************************)
(* Configuration builder.  A schema is                                     *)
(*   [prefix, strict, vars]  with vars a sequence of <<key, rule>> in the  *)
(* declared order (Object.entries) and a rule                              *)
(*   [required, default, type, validator, transform];                      *)
(* "unset" is a field that the rule does not have, prefix "" is no prefix. *)
(***************************************************************************)
Prefix(config) == IF config.prefix # "" THEN config.prefix \o "_" ELSE ""
EnvKey(config, key) == Prefix(config) \o key

\* rawValue === undefined || rawValue === ""
IsMissing(rawValue) == rawValue = Undefined \/ rawValue = Str(<<>>)

\* mutant: fatal only when strict is written out as true
MissingIsFatal_StrictSet(config, varConfig) ==
  varConfig.required /\ config.strict = Bool(TRUE)

\* mutant: every missing variable is fatal under strict, required or not
MissingIsFatal_AnyKey(config, varConfig) ==
  config.strict # Bool(FALSE)

\* varConfig.required && config.strict !== false
MissingIsFatal(config, varConfig) ==
  varConfig.required /\ config.strict # Bool(FALSE)

\* mutant: a string default is parsed as the declared number
MissingValue_Coerced(varConfig) ==
  IF varConfig.default = Undefined THEN Undefined
  ELSE IF varConfig.type = "number" /\ IsStr(varConfig.default)
  THEN parseFloat(varConfig.default.str)
  ELSE varConfig.default

\* the entry of a missing variable that is not fatal
MissingValue(varConfig) ==
  IF varConfig.default # Undefined THEN varConfig.default ELSE Undefined

\* case "number": num is parseFloat(rawValue)
NumberEntry(envKey, num) ==
  IF isNaN(num)
  THEN Threw("Invalid number for environment variable " \o envKey)
  ELSE Returned(num)

\* case "json": parsed is JSON.parse(rawValue) or its SyntaxError
JsonEntry(envKey, parsed) ==
  IF parsed.ok THEN Returned(parsed.value)
  ELSE Threw("Invalid JSON for environment variable " \o envKey)

\* mutant: a value that is no number is kept as NaN, as the accessors do
CoerceByType_NumberLenient(type, envKey, raw) ==
  CASE type = "number" -> Returned(parseFloat(raw))
    [] type = "boolean" -> Returned(Bool(IsTrue(raw)))
    [] type = "json" -> JsonEntry(envKey, JSONparse(raw))
    [] OTHER -> Returned(Str(raw))

\* the switch on varConfig.type
CoerceByType(type, envKey, raw) ==
  CASE type = "number" -> NumberEntry(envKey, parseFloat(raw))
    [] type = "boolean" -> Returned(Bool(IsTrue(raw)))
    [] type = "json" -> JsonEntry(envKey, JSONparse(raw))
    [] OTHER -> Returned(Str(raw))

\* the callbacks a variable that is set sees, in the order of their calls
Validation(varConfig, key, raw) ==
  IF varConfig.validator # "unset" THEN << <<"validator", key, raw>> >> ELSE <<>>
Transformation(varConfig, key, raw) ==
  IF varConfig.transform # "unset" THEN << <<"transform", key, raw>> >> ELSE <<>>

\* mutant: the transform is applied before the validator is asked
ResolvePresent_TransformFirst(varConfig, key, envKey, raw) ==
  IF varConfig.validator # "unset" /\ ~CallValidator(varConfig.validator, raw)
  THEN [ret |-> Threw("Invalid value for environment variable " \o envKey),
        calls |-> Transformation(varConfig, key, raw)
                    \o Validation(varConfig, key, raw)]
  ELSE IF varConfig.transform # "unset"
  THEN [ret |-> Returned(CallTransform(varConfig.transform, raw)),
        calls |-> Transformation(varConfig, key, raw)
                    \o Validation(varConfig, key, raw)]
  ELSE [ret |-> CoerceByType(varConfig.type, envKey, raw),
        calls |-> Validation(varConfig, key, raw)]

\* a variable that is set: validate, then transform or parse by type.
\* [ret, calls]: the entry or the error, and the callbacks invoked
ResolvePresent(varConfig, key, envKey, raw) ==
  IF varConfig.validator # "unset" /\ ~CallValidator(varConfig.validator, raw)
  THEN [ret |-> Threw("Invalid value for environment variable " \o envKey),
        calls |-> Validation(varConfig, key, raw)]
  ELSE IF varConfig.transform # "unset"
  THEN [ret |-> Returned(CallTransform(varConfig.transform, raw)),
        calls |-> Validation(varConfig, key, raw)
                    \o Transformation(varConfig, key, raw)]
  ELSE [ret |-> CoerceByType(varConfig.type, envKey, raw),
        calls |-> Validation(varConfig, key, raw)]

\* a variable that is missing: an error, or the default
ResolveMissing(config, varConfig, envKey) ==
  IF MissingIsFatal(config, varConfig)
  THEN [ret |-> Threw("Required environment variable " \o envKey \o " is not set"),
        calls |-> <<>>]
  ELSE [ret |-> Returned(MissingValue(varConfig)), calls |-> <<>>]

\* the entry of key, as resolved from rawValue
Resolve(config, varConfig, key, envKey, rawValue) ==
  IF IsMissing(rawValue) THEN ResolveMissing(config, varConfig, envKey)
  ELSE ResolvePresent(varConfig, key, envKey, rawValue.str)

\* result[key] = value, or the error leaves the loop; st is
\* [ret, result, calls], ret.threw once an error is thrown
Store(st, key, r) ==
  IF r.ret.threw
  THEN [st EXCEPT !.ret = r.ret, !.calls = @ \o r.calls]
  ELSE [st EXCEPT !.result = PutMember(@, key, r.ret.value),
                  !.calls = @ \o r.calls]

\* the pass of the loop body of createConfig for [key, varConfig]
CreateConfigVar(config, environ, key, varConfig, st) ==
  Store(st, key,
        Resolve(config, varConfig, key, EnvKey(config, key),
                Lookup(environ, EnvKey(config, key))))

\* one pass of the loop body, for the i-th entry of the schema
CreateConfigEntry(config, environ, i, st) ==
  CreateConfigVar(config, environ, config.vars[i][1], config.vars[i][2], st)

\* mutant: the loop goes on after an error, the last error is the one raised
RECURSIVE CreateConfigLoop_KeepsGoing(_, _, _, _)
CreateConfigLoop_KeepsGoing(config, environ, i, st) ==
  IF i > Len(config.vars) THEN st
  ELSE CreateConfigLoop_KeepsGoing(config, environ, i + 1,
                                   CreateConfigEntry(config, environ, i, st))

\* the for loop: the entries in declared order, until one throws
RECURSIVE CreateConfigLoop(_, _, _, _)
CreateConfigLoop(config, environ, i, st) ==
  IF i > Len(config.vars) \/ st.ret.threw THEN st
  ELSE CreateConfigLoop(config, environ, i + 1,
                        CreateConfigEntry(config, environ, i, st))

\* createConfig(config): [ret, calls]; ret is the mapping returned or the
\* error thrown, calls the callbacks invoked on the way
CreateConfigEnd(st) ==
  IF st.ret.threw THEN [ret |-> st.ret, calls |-> st.calls]
  ELSE [ret |-> Returned(Obj(st.result)), calls |-> st.calls]

createConfig(config, environ) ==
  CreateConfigEnd(
    CreateConfigLoop(config, environ, 1,
      [ret |-> Returned(Undefined), result |-> <<>>, calls |-> <<>>]))

\* mutant: a default does not silence the warning
MissingFinding_WarnsDespiteDefault(varConfig, envKey) ==
  IF varConfig.required
  THEN [errors |-> <<"Missing required: " \o envKey>>, warnings |-> <<>>]
  ELSE [errors |-> <<>>, warnings |-> <<"Optional not set: " \o envKey>>]

\* what validateConfig records for a missing variable
MissingFinding(varConfig, envKey) ==
  IF varConfig.required
  THEN [errors |-> <<"Missing required: " \o envKey>>, warnings |-> <<>>]
  ELSE IF varConfig.default = Undefined
  THEN [errors |-> <<>>, warnings |-> <<"Optional not set: " \o envKey>>]
  ELSE [errors |-> <<>>, warnings |-> <<>>]

\* the errors validateConfig records for a variable that is set: the three
\* checks are made one after the other, none ends the pass
ValueError(varConfig, envKey, raw) ==
  IF varConfig.validator # "unset" /\ ~CallValidator(varConfig.validator, raw)
  THEN <<"Invalid value: " \o envKey>>
  ELSE <<>>
NumberError(varConfig, envKey, raw) ==
  IF varConfig.type = "number" /\ isNaN(parseFloat(raw))
  THEN <<"Invalid number: " \o envKey>>
  ELSE <<>>
\* mutant: a value that is no JSON is not reported
JsonError_Unreported(varConfig, envKey, raw) == <<>>

JsonError(varConfig, envKey, raw) ==
  IF varConfig.type = "json" /\ ~JSONparse(raw).ok
  THEN <<"Invalid JSON: " \o envKey>>
  ELSE <<>>
PresentErrors(varConfig, envKey, raw) ==
  ValueError(varConfig, envKey, raw) \o NumberError(varConfig, envKey, raw)
    \o JsonError(varConfig, envKey, raw)

\* the findings on key, from rawValue: [errors, warnings, calls]
Findings(varConfig, key, envKey, rawValue) ==
  IF IsMissing(rawValue)
  THEN [errors |-> MissingFinding(varConfig, envKey).errors,
        warnings |-> MissingFinding(varConfig, envKey).warnings,
        calls |-> <<>>]
  ELSE [errors |-> PresentErrors(varConfig, envKey, rawValue.str),
        warnings |-> <<>>,
        calls |-> Validation(varConfig, key, rawValue.str)]

\* errors.push / warnings.push; st is [errors, warnings, calls]
Push(st, found) ==
  [errors |-> st.errors \o found.errors,
   warnings |-> st.warnings \o found.warnings,
   calls |-> st.calls \o found.calls]

\* the pass of the loop body of validateConfig for [key, varConfig]
ValidateConfigVar(config, environ, key, varConfig, st) ==
  Push(st, Findings(varConfig, key, EnvKey(config, key),
                    Lookup(environ, EnvKey(config, key))))

\* one pass of the loop body, for the i-th entry of the schema
ValidateConfigEntry(config, environ, i, st) ==
  ValidateConfigVar(config, environ, config.vars[i][1], config.vars[i][2], st)

\* mutant: the loop ends at the first key with an error
RECURSIVE ValidateConfigLoop_StopsEarly(_, _, _, _)
ValidateConfigLoop_StopsEarly(config, environ, i, st) ==
  IF i > Len(config.vars) \/ st.errors # <<>> THEN st
  ELSE ValidateConfigLoop_StopsEarly(config, environ, i + 1,
                                     ValidateConfigEntry(config, environ, i, st))

\* the for loop: every entry, in declared order
RECURSIVE ValidateConfigLoop(_, _, _, _)
ValidateConfigLoop(config, environ, i, st) ==
  IF i > Len(config.vars) THEN st
  ELSE ValidateConfigLoop(config, environ, i + 1,
                          ValidateConfigEntry(config, environ, i, st))

\* validateConfig(config): the ConfigValidationResult, never an error
ValidateConfigEnd(st) ==
  [ret |-> Returned([valid |-> Len(st.errors) = 0,
                     errors |-> st.errors,
                     warnings |-> st.warnings]),
   calls |-> st.calls]

validateConfig(config, environ) ==
  ValidateConfigEnd(
    ValidateConfigLoop(config, environ, 1,
      [errors |-> <<>>, warnings |-> <<>>, calls |-> <<>>]))

(***************************************************************************)
(* Inputs of the model                                                     *)
(***************************************************************************)
\* the most keys a schema of the model declares
MaxKeys == 2

\* the keys of the schemas, in declared order, and the prefix in use
KeyNames == <<"PORT", "DEBUG", "CFG">>
PrefixName == "APP"

\* the values each variable is given when it is set
RawValues ==
  << { <<>>, <<"a","b","c">>, <<"1","2",".","5">>, <<"1">>,
       <<"T","R","U","E">>, <<"{","}">> },
     { <<"T","R","U","E">>, <<"0">> },
     { <<"{","}">>, <<"{">> } >>

\* process.env: any of the keys set, all under the prefix or all without it
EnvsUnder(pfx) ==
  UNION { { e \in [ {pfx \o KeyNames[i] : i \in S} ->
                    UNION {RawValues[i] : i \in S} ] :
              \A i \in S : e[pfx \o KeyNames[i]] \in RawValues[i] } :
          S \in SUBSET (1..MaxKeys) }
Envs == EnvsUnder("") \cup EnvsUnder(PrefixName \o "_")

Defaults == {Undefined, Str(<<"8","0">>), Num(1, 3, 3)}
Types == {"unset", "string", "number", "boolean", "json"}
Rules ==
  [required : BOOLEAN, default : Defaults, type : Types,
   validator : {"unset", "isShort"}, transform : {"unset", "length"}]

Rule(required, default, type, validator, transform) ==
  [required |-> required, default |-> default, type |-> type,
   validator |-> validator, transform |-> transform]

\* the rules of the schemas that declare several keys
SomeRules ==
  { Rule(TRUE, Undefined, "string", "unset", "unset"),
    Rule(FALSE, Num(1, 3, 3), "number", "unset", "unset"),
    Rule(FALSE, Undefined, "json", "isShort", "unset"),
    Rule(TRUE, Str(<<"8","0">>), "number", "unset", "length"),
    Rule(FALSE, Undefined, "boolean", "isShort", "length") }

\* one key under every rule, or up to MaxKeys keys under the rules above
SchemaVars ==
  { << <<KeyNames[1], r>> >> : r \in Rules } \cup
  UNION { { [i \in 1..n |-> <<KeyNames[i], f[i]>>] : f \in [1..n -> SomeRules] } :
          n \in 2..MaxKeys }

Schemas ==
  { [prefix |-> p, strict |-> s, vars |-> v] :
      p \in {"", PrefixName}, s \in {Undefined, Bool(TRUE), Bool(FALSE)},
      v \in SchemaVars }

(***************************************************************************)
(* State: the process environment, and the call made to the library with  *)
(* its argument, what it returned or threw, and the callbacks of the       *)
(* schema it invoked.  The library keeps nothing between calls and never   *)
(* writes process.env: the caller makes a call (op is its name), takes the *)
(* outcome (Done) and is free to make the next one.                        *)
(***************************************************************************)
VARIABLES env, op, args, ret, calls

vars == <<env, op, args, ret, calls>>

Init ==
  /\ env \in Envs
  /\ op = "none"
  /\ args = Undefined
  /\ ret = Returned(Undefined)
  /\ calls = <<>>

CreateConfig ==
  \E config \in Schemas :
    /\ op = "none"
    /\ op' = "createConfig"
    /\ args' = config
    /\ \E out \in {createConfig(config, env)} :
         ret' = out.ret /\ calls' = out.calls
    /\ UNCHANGED env

ValidateConfig ==
  \E config \in Schemas :
    /\ op = "none"
    /\ op' = "validateConfig"
    /\ args' = config
    /\ \E out \in {validateConfig(config, env)} :
         ret' = out.ret /\ calls' = out.calls
    /\ UNCHANGED env

\* the caller has the outcome of the call
Done ==
  /\ op # "none"
  /\ op' = "none"
  /\ args' = Undefined
  /\ ret' = Returned(Undefined)
  /\ calls' = <<>>
  /\ UNCHANGED env

Next == CreateConfig \/ ValidateConfig \/ Done

Spec == Init /\ [][Next]_vars

(***************************************************************************)
(* The accessors, each reading one variable: the variable X holds any      *)
(* string of at most MaxLen characters of Alphabet or one of Samples, or   *)
(* is not set; Y is never set.                                             *)
(***************************************************************************)
MaxLen == 3
Alphabet == {"1", "5", ".", "e", "-", "+", " ", "T", "t"}
Samples ==
  { TrueLit, <<"T","R","U","E">>, <<"T","r","u","e">>, FalseLit, <<"0">>,
    <<"y","e","s">>, <<"a","b","c">>, <<"1","2",".","5">>, <<"1","2",".","5","p","x">>,
    InfinityLit, <<"N","a","N">>, <<"{","}">>, <<"[","1",",","2","]">>, <<"{">> }
AccessorValues == Samples \cup UNION { [1..n -> Alphabet] : n \in 0..MaxLen }
AccessorEnvs == { <<>> } \cup { [k \in {"X"} |-> v] : v \in AccessorValues }
AccessorKeys == {"X", "Y"}

InitAccessors ==
  /\ env \in AccessorEnvs
  /\ op = "none"
  /\ args = Undefined
  /\ ret = Returned(Undefined)
  /\ calls = <<>>

\* a call of an accessor: args is its key and its default
GetEnv ==
  \E key \in AccessorKeys, d \in {Undefined, Str(<<"d">>)} :
    /\ op = "none"
    /\ op' = "getEnv"
    /\ args' = [key |-> key, defaultValue |-> d]
    /\ ret' = getEnv(env, key, d)
    /\ calls' = <<>>
    /\ UNCHANGED env

GetRequiredEnv ==
  \E key \in AccessorKeys, d \in {Undefined} :
    /\ op = "none"
    /\ op' = "getRequiredEnv"
    /\ args' = [key |-> key, defaultValue |-> d]
    /\ ret' = getRequiredEnv(env, key)
    /\ calls' = <<>>
    /\ UNCHANGED env

GetEnvNumber ==
  \E key \in AccessorKeys, d \in {Undefined, Num(1, 7, 0)} :
    /\ op = "none"
    /\ op' = "getEnvNumber"
    /\ args' = [key |-> key, defaultValue |-> d]
    /\ ret' = getEnvNumber(env, key, d)
    /\ calls' = <<>>
    /\ UNCHANGED env

GetEnvBoolean ==
  \E key \in AccessorKeys, d \in {Undefined, Bool(TRUE), Bool(FALSE)} :
    /\ op = "none"
    /\ op' = "getEnvBoolean"
    /\ args' = [key |-> key, defaultValue |-> d]
    /\ ret' = getEnvBoolean(env, key, d)
    /\ calls' = <<>>
    /\ UNCHANGED env

GetEnvJson ==
  \E key \in AccessorKeys, d \in {Undefined, Obj(<<>>)} :
    /\ op = "none"
    /\ op' = "getEnvJson"
    /\ args' = [key |-> key, defaultValue |-> d]
    /\ ret' = getEnvJson(env, key, d)
    /\ calls' = <<>>
    /\ UNCHANGED env

NextAccessors ==
  GetEnv \/ GetRequiredEnv \/ GetEnvNumber \/ GetEnvBoolean \/ GetEnvJson \/ Done

SpecAccessors == InitAccessors /\ [][NextAccessors]_vars

(***************************************************************************)
(* Vocabulary of the properties: the i-th key of the schema of the call,   *)
(* its rule, its actual variable and what the environment holds for it.    *)
(***************************************************************************)
Range(seq) == {seq[i] : i \in DOMAIN seq}
ResolverCall == op \in {"createConfig", "validateConfig"}
Keys == 1..Len(args.vars)
KeyOf(i) == args.vars[i][1]
RuleOf(i) == args.vars[i][2]
ActualName(i) ==
  IF args.prefix = "" THEN KeyOf(i) ELSE args.prefix \o "_" \o KeyOf(i)
IsSet(i) == ActualName(i) \in DOMAIN env
Unset(i) == ~IsSet(i) \/ env[ActualName(i)] = <<>>
RawOf(i) == env[ActualName(i)]
Strict == args.strict \in {Undefined, Bool(TRUE)}
HasDefault(i) == RuleOf(i).default # Undefined
HasValidator(i) == RuleOf(i).validator # "unset"
HasTransform(i) == RuleOf(i).transform # "unset"
Rejected(i) == HasValidator(i) /\ ~CallValidator(RuleOf(i).validator, RawOf(i))
NotANumber(i) == RuleOf(i).type = "number" /\ isNaN(parseFloat(RawOf(i)))
NotJson(i) == RuleOf(i).type = "json" /\ ~JSONparse(RawOf(i)).ok
CallsOn(i) == {c \in Range(calls) : c[2] = KeyOf(i)}
EntriesOf(i) ==
  {m \in DOMAIN ret.value.obj : ret.value.obj[m][1] = KeyOf(i)}
EntryOf(i) == ret.value.obj[CHOOSE m \in EntriesOf(i) : TRUE][2]

\* the error createConfig raises on key i by the rules of the resolver,
\* "" when the key is sound
FaultOf(i) ==
  IF Unset(i)
  THEN IF RuleOf(i).required /\ Strict
       THEN "Required environment variable " \o ActualName(i) \o " is not set"
       ELSE ""
  ELSE IF Rejected(i)
  THEN "Invalid value for environment variable " \o ActualName(i)
  ELSE IF HasTransform(i) THEN ""
  ELSE IF NotANumber(i)
  THEN "Invalid number for environment variable " \o ActualName(i)
  ELSE IF NotJson(i)
  THEN "Invalid JSON for environment variable " \o ActualName(i)
  ELSE ""
Faulty(i) == FaultOf(i) # ""

\* C1: a key marked required whose actual variable is absent or empty, with
\* strict true or unset, makes createConfig fail and makes validateConfig
\* list "Missing required: <actual name>" in errors and no warning on it.
C1_RequiredMissing ==
  ResolverCall =>
    \A i \in Keys :
      (RuleOf(i).required /\ Strict /\ Unset(i)) =>
        /\ op = "createConfig" => ret.threw
        /\ op = "validateConfig" =>
             /\ ("Missing required: " \o ActualName(i)) \in Range(ret.value.errors)
             /\ ("Optional not set: " \o ActualName(i))
                  \notin Range(ret.value.warnings)

\* C1 witness: createConfig failed on a schema with a prefix and strict
\* unset whose second key is required and set to nothing under the prefix
C1_Witness ==
  /\ op = "createConfig"
  /\ ret.threw
  /\ args.prefix = PrefixName
  /\ args.strict = Undefined
  /\ Len(args.vars) >= 2
  /\ RuleOf(2).required /\ Unset(2)
  /\ ~Faulty(1)

\* C2 as stated: with no required key createConfig never fails, whatever
\* the environment holds.
C2_NeverFailsWithoutRequired ==
  (op = "createConfig" /\ \A i \in Keys : ~RuleOf(i).required) => ~ret.threw

\* C2 amended: with no required key createConfig never fails over a variable
\* that is absent or empty; it fails exactly when a variable that is set is
\* rejected by its validator or, its rule having no transform, does not
\* parse as the declared number or json.
C2_FailsOnlyOnPresentValues ==
  (op = "createConfig" /\ \A i \in Keys : ~RuleOf(i).required) =>
    /\ ret.threw <=>
         \E i \in Keys :
           /\ ~Unset(i)
           /\ \/ Rejected(i)
              \/ ~HasTransform(i) /\ (NotANumber(i) \/ NotJson(i))
    /\ (\A i \in Keys : Unset(i)) => ~ret.threw

\* C2 witness: no key required, a variable absent, and createConfig returned
C2_Witness ==
  /\ op = "createConfig"
  /\ \A i \in Keys : ~RuleOf(i).required
  /\ \E i \in Keys : ~IsSet(i)
  /\ \E i \in Keys : IsSet(i) /\ RawOf(i) = <<>>
  /\ ~ret.threw

\* C3 as stated: a key of type "number" whose variable holds a non-empty
\* value that is no number makes createConfig fail and validateConfig report
\* it, whatever the other fields of the rule.
C3_NumberAlwaysFails ==
  ResolverCall =>
    \A i \in Keys :
      (~Unset(i) /\ NotANumber(i)) =>
        /\ op = "createConfig" => ret.threw
        /\ op = "validateConfig" =>
             ("Invalid number: " \o ActualName(i)) \in Range(ret.value.errors)

\* C3 amended: such a key makes createConfig fail when its rule has no
\* transform (or its validator rejects the value); with a transform and the
\* value accepted the key raises no error and resolves to transform(raw).
\* validateConfig reports "Invalid number: <actual name>" in every case.
C3_NumberFailsWithoutTransform ==
  ResolverCall =>
    \A i \in Keys :
      (~Unset(i) /\ NotANumber(i)) =>
        /\ (op = "createConfig" /\ (~HasTransform(i) \/ Rejected(i))) => ret.threw
        /\ (op = "createConfig" /\ HasTransform(i) /\ ~Rejected(i)) =>
             /\ ret.threw => \E j \in Keys : j # i /\ Faulty(j)
             /\ ~ret.threw =>
                  EntryOf(i) = CallTransform(RuleOf(i).transform, RawOf(i))
        /\ op = "validateConfig" =>
             /\ ("Invalid number: " \o ActualName(i)) \in Range(ret.value.errors)
             /\ ~ret.value.valid

\* C3 witness: createConfig failed with "Invalid number" on a variable set
\* to "abc"
C3_Witness ==
  /\ op = "createConfig"
  /\ ret.threw
  /\ \E i \in Keys :
       /\ IsSet(i) /\ RawOf(i) = <<"a","b","c">>
       /\ RuleOf(i).type = "number"
       /\ HasValidator(i)
       /\ ret.error = "Invalid number for environment variable " \o ActualName(i)

\* C4: createConfig is fail-fast in declared order: the error is that of the
\* first faulty key and names its actual variable, no callback of a later
\* key is invoked, and nothing is returned; it fails only on a faulty key.
C4_FailFast ==
  op = "createConfig" =>
    /\ ret.threw <=> \E i \in Keys : Faulty(i)
    /\ ret.threw =>
         LET first == CHOOSE i \in Keys :
                        Faulty(i) /\ \A j \in 1..(i - 1) : ~Faulty(j)
         IN  /\ ret.error = FaultOf(first)
             /\ \A j \in Keys : j > first => CallsOn(j) = {}
             /\ ret.value = Undefined

\* C4 witness: two faulty keys, the later one with a validator that was not
\* invoked, and an earlier sound key whose validator was
C4_Witness ==
  /\ op = "createConfig"
  /\ ret.threw
  /\ \E i, j \in Keys :
       /\ i < j
       /\ Faulty(i) /\ Faulty(j)
       /\ ~Unset(j) /\ HasValidator(j)
       /\ FaultOf(i) # FaultOf(j)
       /\ ret.error = FaultOf(i)

C6_Warnings ==
  op = "validateConfig" =>
    LET errors == Range(ret.value.errors)
        warnings == Range(ret.value.warnings)
        ErrorsOn(name) == {"Missing required: " \o name, "Invalid value: " \o name,
                           "Invalid number: " \o name, "Invalid JSON: " \o name}
    IN  /\ \A i \in Keys :
             /\ ("Optional not set: " \o ActualName(i)) \in warnings
                  <=> (~RuleOf(i).required /\ Unset(i) /\ ~HasDefault(i))
             /\ ("Optional not set: " \o ActualName(i)) \in warnings
                  => ErrorsOn(ActualName(i)) \cap errors = {}
        /\ warnings \subseteq {"Optional not set: " \o ActualName(i) : i \in Keys}
        /\ Len(ret.value.warnings) = Cardinality(warnings)
        /\ errors = {} => ret.value.valid

\* C6 witness: a warning on one key, no error, valid
C6_Witness ==
  /\ op = "validateConfig"
  /\ Len(args.vars) >= 2
  /\ ret.value.warnings = <<"Optional not set: " \o ActualName(2)>>
  /\ HasDefault(1) /\ Unset(1)
  /\ ret.value.errors = <<>>
  /\ ret.value.valid

\* C7: when createConfig succeeds the result has exactly one entry per key
\* of the schema, in declared order; the entry of a key whose variable is
\* absent or empty is the default of the rule as declared, undefined when it
\* has none, and neither its validator nor its transform was invoked.
C7_Defaults ==
  (op = "createConfig" /\ ~ret.threw) =>
    /\ Len(ret.value.obj) = Len(args.vars)
    /\ \A i \in Keys : ret.value.obj[i][1] = KeyOf(i)
    /\ \A i \in Keys :
         Unset(i) =>
           /\ HasDefault(i) => EntryOf(i) = RuleOf(i).default
           /\ ~HasDefault(i) => EntryOf(i) = Undefined
           /\ CallsOn(i) = {}

\* C7 witness: a key of type "number" with the string default "80", a
\* validator and a transform, its variable empty, resolved to "80"
C7_Witness ==
  /\ op = "createConfig"
  /\ ~ret.threw
  /\ \E i \in Keys :
       /\ IsSet(i) /\ RawOf(i) = <<>>
       /\ RuleOf(i).type = "number"
       /\ RuleOf(i).default = Str(<<"8","0">>)
       /\ HasValidator(i) /\ HasTransform(i)
       /\ EntryOf(i) = Str(<<"8","0">>)

\* C8: for a variable that is set, createConfig applies the validator first
\* and its rejection aborts; with a transform the entry is transform(raw)
\* and the type is ignored, so that key raises no parse error; only without
\* a transform is the value coerced by type.
C8_ValidateTransformCoerce ==
  op = "createConfig" =>
    \A i \in Keys :
      (~Unset(i) /\ \A j \in 1..(i - 1) : ~Faulty(j)) =>
        LET raw == RawOf(i)
            rule == RuleOf(i)
            validated == <<"validator", KeyOf(i), raw>>
            transformed == <<"transform", KeyOf(i), raw>>
        IN  /\ HasValidator(i) <=> validated \in Range(calls)
            /\ Rejected(i) =>
                 /\ ret.threw
                 /\ ret.error = "Invalid value for environment variable "
                                  \o ActualName(i)
                 /\ transformed \notin Range(calls)
            /\ (~Rejected(i) /\ HasTransform(i)) =>
                 /\ transformed \in Range(calls)
                 /\ HasValidator(i) =>
                      \E m, n \in DOMAIN calls :
                        m < n /\ calls[m] = validated /\ calls[n] = transformed
                 /\ ret.error \notin
                      {"Invalid number for environment variable " \o ActualName(i),
                       "Invalid JSON for environment variable " \o ActualName(i)}
                 /\ ~ret.threw => EntryOf(i) = CallTransform(rule.transform, raw)
            /\ (~Rejected(i) /\ ~HasTransform(i)) =>
                 /\ transformed \notin Range(calls)
                 /\ ~ret.threw =>
                      EntryOf(i) =
                        CASE rule.type = "number" -> parseFloat(raw)
                          [] rule.type = "boolean" ->
                               Bool(toLowerCase(raw) = TrueLit \/ raw = <<"1">>)
                          [] rule.type = "json" -> JSONparse(raw).value
                          [] OTHER -> Str(raw)

\* C8 witness: a key of type "number" set to "abc", accepted by its
\* validator and resolved by its transform to the length 3
C8_Witness ==
  /\ op = "createConfig"
  /\ ~ret.threw
  /\ \E i \in Keys :
       /\ IsSet(i) /\ RawOf(i) = <<"a","b","c">>
       /\ RuleOf(i).type = "number"
       /\ HasValidator(i) /\ HasTransform(i)
       /\ EntryOf(i) = Num(1, 3, 0)

(***************************************************************************)
(* Vocabulary of the properties of the accessors                           *)
(***************************************************************************)
Present == args.key \in DOMAIN env
Value == env[args.key]
\* "true" in any mix of upper and lower case
IsTrueAnyCase(s) ==
  /\ Len(s) = 4
  /\ s[1] \in {"t", "T"} /\ s[2] \in {"r", "R"}
  /\ s[3] \in {"u", "U"} /\ s[4] \in {"e", "E"}
\* s, after its leading white space and one sign, starts as a number does:
\* with a digit, with a point and a digit, or with Infinity
RECURSIVE StartsNumber(_, _, _)
StartsNumber(s, p, signSeen) ==
  IF p > Len(s) THEN FALSE
  ELSE IF ~signSeen /\ s[p] \in {" ", "\t", "\n", "\r"}
  THEN StartsNumber(s, p + 1, FALSE)
  ELSE IF ~signSeen /\ s[p] \in {"+", "-"} THEN StartsNumber(s, p + 1, TRUE)
  ELSE \/ s[p] \in Range(Digits)
       \/ s[p] = "." /\ p < Len(s) /\ s[p + 1] \in Range(Digits)
       \/ Len(s) >= p + 7 /\ SubSeq(s, p, p + 7) = InfinityLit

\* C9: getEnvBoolean returns the default when the variable is absent; for
\* every value that is present, the empty string too, it returns true
\* exactly when the value is "true" in any case or is "1", never the default.
C9_GetEnvBoolean ==
  op = "getEnvBoolean" =>
    /\ ~ret.threw
    /\ ~Present => ret.value = args.defaultValue
    /\ Present => ret.value = Bool(IsTrueAnyCase(Value) \/ Value = <<"1">>)
    /\ (Present /\ Value \in {TrueLit, <<"T","R","U","E">>, <<"1">>})
         => ret.value = Bool(TRUE)
    /\ (Present /\ Value \in {FalseLit, <<"0">>, <<"y","e","s">>, <<>>})
         => ret.value = Bool(FALSE)

\* C9 witness: the variable is set to the empty string, the default is true
\* and the result is false
C9_Witness ==
  /\ op = "getEnvBoolean"
  /\ Present /\ Value = <<>>
  /\ args.defaultValue = Bool(TRUE)
  /\ ret.value = Bool(FALSE)

\* C10: getEnvNumber never fails; it returns the default when the variable
\* is absent or its value parses to NaN, and the parsed number otherwise:
\* with default 7, unset gives 7, "12.5" gives 12.5 and "abc" gives 7.
C10_GetEnvNumber ==
  op = "getEnvNumber" =>
    /\ ~ret.threw
    /\ (~Present \/ ~StartsNumber(Value, 1, FALSE)) => ret.value = args.defaultValue
    /\ (Present /\ StartsNumber(Value, 1, FALSE)) =>
         /\ ret.value = parseFloat(Value)
         /\ DOMAIN ret.value \in {{"num"}, {"inf"}}
    /\ ret.value # NaN
    /\ (Present /\ Value = <<"1","2",".","5">>) => ret.value = Num(1, 125, -1)
    /\ (args.defaultValue = Num(1, 7, 0)
          /\ (~Present \/ Value = <<"a","b","c">>)) => ret.value = Num(1, 7, 0)

\* C10 witness: X is "abc", the default is 7 and 7 is returned
C10_Witness ==
  /\ op = "getEnvNumber"
  /\ Present /\ Value = <<"a","b","c">>
  /\ args.defaultValue = Num(1, 7, 0)
  /\ ret.value = Num(1, 7, 0)

(***************************************************************************)
(* Objects.  The price table, the route mapping and the flag table are     *)
(* plain objects, made by a literal, and inherit from Object.prototype: a  *)
(* property read object[key] finds the own member of that name and, when   *)
(* there is none, the member Object.prototype has of that name.  Fn(name)  *)
(* is a function value.  Paths, price keys and flag names are TLA+         *)
(* strings, as the names of the variables are.                             *)
(***************************************************************************)
Fn(name) == [fn |-> name]

ObjectPrototype ==
  << <<"constructor", Fn("Object")>>, <<"toString", Fn("toString")>>,
     <<"valueOf", Fn("valueOf")>>, <<"hasOwnProperty", Fn("hasOwnProperty")>> >>

HasOwn(members, key) == \E i \in DOMAIN members : members[i][1] = key
MemberOf(members, key) ==
  members[CHOOSE i \in DOMAIN members : members[i][1] = key][2]

\* the own members of a value: a function and a primitive have none here
OwnMembers(value) == IF DOMAIN value = {"obj"} THEN value.obj ELSE <<>>

\* members[key] along the prototype chain
GetMember(members, key) ==
  IF HasOwn(members, key) THEN MemberOf(members, key)
  ELSE IF HasOwn(ObjectPrototype, key) THEN MemberOf(ObjectPrototype, key)
  ELSE Undefined

\* object[key]
Get(object, key) == GetMember(OwnMembers(object), key)

\* the truth value JavaScript gives a value in  ||  and in a condition
ToBoolean(v) ==
  CASE DOMAIN v = {"undefined"} -> FALSE
    [] DOMAIN v = {"null"} -> FALSE
    [] DOMAIN v = {"nan"} -> FALSE
    [] DOMAIN v = {"bool"} -> v.bool
    [] DOMAIN v = {"num"} -> v.num[2] # 0
    [] DOMAIN v = {"str"} -> v.str # <<>>
    [] OTHER -> TRUE

(***************************************************************************)
(* Route configuration.  A route of the list is [path, priceKey,           *)
(* description], description undefined when it has none.                   *)
(***************************************************************************)
\* value || 0
OrZero(value) == IF ToBoolean(value) THEN value ELSE Num(1, 0, 0)

\* prices[route.priceKey] || 0
RoutePrice(route, prices) == OrZero(Get(prices, route.priceKey))

\* { path, price, description } of a route
RouteEntry(route, prices) ==
  Obj(<< <<"path", Str(route.path)>>,
         <<"price", RoutePrice(route, prices)>>,
         <<"description", route.description>> >>)

\* the for loop: result[route.path] = entry, in the order of the list
RECURSIVE CreateRouteMappingLoop(_, _, _, _)
CreateRouteMappingLoop(routes, prices, i, result) ==
  IF i > Len(routes) THEN result
  ELSE CreateRouteMappingLoop(routes, prices, i + 1,
         PutMember(result, routes[i].path, RouteEntry(routes[i], prices)))

createRouteMapping(routes, prices) ==
  Returned(Obj(CreateRouteMappingLoop(routes, prices, 1, <<>>)))

\* route?.price
OptionalPrice(route) ==
  IF route = Undefined \/ route = Null THEN Undefined ELSE Get(route, "price")

getRoutePrice(routes, path) == Returned(OptionalPrice(Get(routes, path)))

(***************************************************************************)
(* The route helpers: a list of at most MaxRoutes routes over two paths    *)
(* and three price keys, a price table that has or lacks "basic" and       *)
(* "pro", and a lookup in the mapping made.                                *)
(***************************************************************************)
MaxRoutes == 2
Paths == {"/a", "/b"}
PriceKeys == {"basic", "pro", "toString"}
Descriptions == {Undefined, Str(<<"A">>)}
Routes == [path : Paths, priceKey : PriceKeys, description : Descriptions]
RouteLists == UNION { [1..n -> Routes] : n \in 0..MaxRoutes }

BasicPrices == {Num(1, 0, 0), Num(1, 5, -2), NaN}
ProPrices == {Num(1, 15, -2)}
PriceConfigs ==
  { Obj(<<>>) }
    \cup { Obj(<< <<"basic", b>> >>) : b \in BasicPrices }
    \cup { Obj(<< <<"pro", p>> >>) : p \in ProPrices }
    \cup { Obj(<< <<"basic", b>>, <<"pro", p>> >>) :
             b \in BasicPrices, p \in ProPrices }

LookupPaths == Paths \cup {"/c", "toString"}

InitRoutes ==
  /\ env = <<>>
  /\ op = "none"
  /\ args = Undefined
  /\ ret = Returned(Undefined)
  /\ calls = <<>>

CreateRouteMapping ==
  \E routes \in RouteLists, prices \in PriceConfigs :
    /\ op = "none"
    /\ op' = "createRouteMapping"
    /\ args' = [routes |-> routes, prices |-> prices]
    /\ ret' = createRouteMapping(routes, prices)
    /\ calls' = <<>>
    /\ UNCHANGED env

\* a lookup in the mapping that createRouteMapping returned; made is the
\* list and the table the mapping was made of
GetRoutePrice ==
  \E path \in LookupPaths :
    /\ op = "createRouteMapping"
    /\ op' = "getRoutePrice"
    /\ args' = [routes |-> ret.value, path |-> path, made |-> args]
    /\ ret' = getRoutePrice(ret.value, path)
    /\ calls' = <<>>
    /\ UNCHANGED env

NextRoutes == CreateRouteMapping \/ GetRoutePrice \/ Done

SpecRoutes == InitRoutes /\ [][NextRoutes]_vars

(***************************************************************************)
(* Vocabulary of the route properties: the list and the table the mapping  *)
(* was made of, the route that decides a path (the last one of the list    *)
(* with that path), and the price the table holds for a route.             *)
(***************************************************************************)
MadeOf == IF op = "getRoutePrice" THEN args.made ELSE args
Listed(path) == \E i \in DOMAIN MadeOf.routes : MadeOf.routes[i].path = path
IsLastOf(i) ==
  \A j \in DOMAIN MadeOf.routes :
    j > i => MadeOf.routes[j].path # MadeOf.routes[i].path
LastOf(path) ==
  CHOOSE i \in DOMAIN MadeOf.routes : MadeOf.routes[i].path = path /\ IsLastOf(i)
InTable(i) == HasOwn(MadeOf.prices.obj, MadeOf.routes[i].priceKey)
TablePrice(i) ==
  IF InTable(i) THEN MemberOf(MadeOf.prices.obj, MadeOf.routes[i].priceKey)
  ELSE Num(1, 0, 0)
EntryAt(path) == MemberOf(ret.value.obj, path)

\* the route mapping has an entry for the path of route i, carrying the
\* path and, when route i decides the path, the price of the table
CarriesRoute(i) ==
  /\ HasOwn(ret.value.obj, MadeOf.routes[i].path)
  /\ Get(EntryAt(MadeOf.routes[i].path), "path") = Str(MadeOf.routes[i].path)
  /\ IsLastOf(i) =>
       Get(EntryAt(MadeOf.routes[i].path), "price") = TablePrice(i)

\* the lookup returns the price of the table for a listed path and
\* undefined for any other
ReturnsPrice ==
  /\ ~ret.threw
  /\ Listed(args.path) => ret.value = TablePrice(LastOf(args.path))
  /\ ~Listed(args.path) => ret.value = Undefined

\* a route whose price key is no name of Object.prototype and whose price
\* in the table, if any, is a number
PlainRoute(i) ==
  /\ ~HasOwn(ObjectPrototype, MadeOf.routes[i].priceKey)
  /\ TablePrice(i) # NaN

\* C11: createRouteMapping(routes, prices) returns a mapping with an entry
\* for every path in routes, each carrying that path and the price
\* prices[priceKey], with price 0 and never an error when priceKey is absent
\* from prices; getRoutePrice on that mapping returns that price for a
\* listed path and undefined, not an error, for a path that is not listed.
C11_RouteMapping ==
  /\ op = "createRouteMapping" =>
       /\ ~ret.threw
       /\ \A i \in DOMAIN args.routes : CarriesRoute(i)
       /\ \A m \in DOMAIN ret.value.obj : Listed(ret.value.obj[m][1])
  /\ op = "getRoutePrice" => ReturnsPrice

\* C11, for the routes with a plain price key and a numeric price only
C11_PlainRoutes ==
  /\ op = "createRouteMapping" =>
       /\ ~ret.threw
       /\ \A i \in DOMAIN args.routes : PlainRoute(i) => CarriesRoute(i)
       /\ \A i \in DOMAIN args.routes :
            HasOwn(ret.value.obj, args.routes[i].path)
       /\ \A m \in DOMAIN ret.value.obj : Listed(ret.value.obj[m][1])
  /\ op = "getRoutePrice" =>
       /\ ~ret.threw
       /\ (Listed(args.path) /\ PlainRoute(LastOf(args.path))) =>
            ret.value = TablePrice(LastOf(args.path))
       /\ ~Listed(args.path) => ret.value = Undefined

\* C11 witness: a path listed twice, its last route with a price key the
\* table lacks, and the lookup of that path returns 0
C11_Witness ==
  /\ op = "getRoutePrice"
  /\ Len(args.made.routes) = 2
  /\ args.made.routes[1].path = args.path
  /\ args.made.routes[2].path = args.path
  /\ args.made.routes[2].priceKey = "pro"
  /\ ~InTable(2) /\ InTable(1)
  /\ ret.value = Num(1, 0, 0)

(***************************************************************************)
(* Feature flags.  A flag table is a sequence of <<name, [envKey,          *)
(* default]>> in the declared order (Object.entries).                      *)
(***************************************************************************)
\* value !== undefined ? value.toLowerCase() === "true" || value === "1"
\*                     : config.default
FlagFrom(value, default) ==
  IF value # Undefined THEN Bool(IsTrue(value.str)) ELSE default

\* the for loop: result[key] = the flag read from process.env[config.envKey]
RECURSIVE CreateFeatureFlagsLoop(_, _, _, _)
CreateFeatureFlagsLoop(flags, environ, i, result) ==
  IF i > Len(flags) THEN result
  ELSE CreateFeatureFlagsLoop(flags, environ, i + 1,
         PutMember(result, flags[i][1],
                   FlagFrom(Lookup(environ, flags[i][2].envKey),
                            flags[i][2].default)))

createFeatureFlags(flags, environ) ==
  Returned(Obj(CreateFeatureFlagsLoop(flags, environ, 1, <<>>)))

\* value ?? false
OrFalse(value) ==
  IF value = Undefined \/ value = Null THEN Bool(FALSE) ELSE value

isFeatureEnabled(flags, feature) == Returned(OrFalse(Get(flags, feature)))

(***************************************************************************)
(* The flag helpers: a table of at most MaxFlags flags, each reading one   *)
(* of two variables, and a lookup in the flags made.  The first variable   *)
(* holds any of FlagValues or is not set, the second "1" or "false" or     *)
(* is not set.                                                             *)
(***************************************************************************)
MaxFlags == 2
FlagNames == <<"newUI", "beta", "darkMode">>
FlagEnvKeys == {"FEATURE_NEW_UI", "FEATURE_BETA"}
FlagValues ==
  { TrueLit, <<"T","R","U","E">>, <<"T","r","u","e">>, <<"1">>, FalseLit,
    <<"0">>, <<"y","e","s">>, <<>>, <<"1","1">>, <<" ","t","r","u","e">> }
FlagEnvs ==
  { [k \in ks |-> IF k = "FEATURE_NEW_UI" THEN v ELSE w] :
      ks \in SUBSET FlagEnvKeys, v \in FlagValues, w \in {<<"1">>, FalseLit} }
FlagConfigs == [envKey : FlagEnvKeys, default : {Bool(TRUE), Bool(FALSE)}]
FlagTables ==
  UNION { { [i \in 1..n |-> <<FlagNames[names[i]], configs[i]>>] :
              names \in { f \in [1..n -> 1..MaxFlags] :
                            \A i, j \in 1..n : i # j => f[i] # f[j] },
              configs \in [1..n -> FlagConfigs] } :
          n \in 0..MaxFlags }
Features == {FlagNames[i] : i \in 1..MaxFlags} \cup {"unknown", "toString"}

InitFlags ==
  /\ env \in FlagEnvs
  /\ op = "none"
  /\ args = Undefined
  /\ ret = Returned(Undefined)
  /\ calls = <<>>

CreateFeatureFlags ==
  \E flags \in FlagTables :
    /\ op = "none"
    /\ op' = "createFeatureFlags"
    /\ args' = [flags |-> flags]
    /\ ret' = createFeatureFlags(flags, env)
    /\ calls' = <<>>
    /\ UNCHANGED env

\* a lookup in the flags that createFeatureFlags returned; made is the
\* table they were made of
IsFeatureEnabled ==
  \E feature \in Features :
    /\ op = "createFeatureFlags"
    /\ op' = "isFeatureEnabled"
    /\ args' = [flags |-> ret.value, feature |-> feature, made |-> args]
    /\ ret' = isFeatureEnabled(ret.value, feature)
    /\ calls' = <<>>
    /\ UNCHANGED env

NextFlags == CreateFeatureFlags \/ IsFeatureEnabled \/ Done

SpecFlags == InitFlags /\ [][NextFlags]_vars

(***************************************************************************)
(* Vocabulary of the flag property: the table the flags were made of, and  *)
(* the declaration of the feature that is looked up.                       *)
(***************************************************************************)
Declared == HasOwn(args.made.flags, args.feature)
Declaration == MemberOf(args.made.flags, args.feature)
FlagSet == Declaration.envKey \in DOMAIN env
FlagRaw == env[Declaration.envKey]

\* what the claim says isFeatureEnabled returns
FlagClaimed ==
  IF ~Declared THEN Bool(FALSE)
  ELSE IF ~FlagSet THEN Declaration.default
  ELSE Bool(toLowerCase(FlagRaw) = TrueLit \/ FlagRaw = <<"1">>)

\* C12: for every flag table and environment,
\* isFeatureEnabled(createFeatureFlags(flags), name) is false for every name
\* that is not declared in flags; for a declared name it is the default of
\* the flag when its variable is absent, and otherwise it is true exactly
\* when the value lower-cased is "true" or the value is "1".
C12_FeatureFlags ==
  op = "isFeatureEnabled" => ~ret.threw /\ ret.value = FlagClaimed

\* C12, for the names that are no member names of Object.prototype only
C12_PlainNames ==
  (op = "isFeatureEnabled" /\ ~HasOwn(ObjectPrototype, args.feature)) =>
    ~ret.threw /\ ret.value = FlagClaimed

\* C12 witness: a declared flag with default true whose variable is set to
\* the empty string is off
C12_Witness ==
  /\ op = "isFeatureEnabled"
  /\ Declared /\ FlagSet /\ FlagRaw = <<>>
  /\ Declaration.default = Bool(TRUE)
  /\ ret.value = Bool(FALSE)

(***************************************************************************)
(* Vocabulary of the dry-run property: whether createConfig completes on   *)
(* the schema and the environment of the call, whether validateConfig      *)
(* finds them valid, and the keys on which the two are known to part.      *)
(***************************************************************************)
Completes ==
  IF op = "createConfig" THEN ~ret.threw
  ELSE ~createConfig(args, env).ret.threw
Valid ==
  IF op = "validateConfig" THEN ret.value.valid
  ELSE validateConfig(args, env).ret.value.valid

\* a required key without a value under strict: false
MissingTolerated(i) == Unset(i) /\ RuleOf(i).required /\ ~Strict
\* a value that its validator accepts and its transform takes, of a rule
\* that declares a type the value does not parse as
TransformedUnparsed(i) ==
  /\ ~Unset(i) /\ ~Rejected(i) /\ HasTransform(i)
  /\ NotANumber(i) \/ NotJson(i)
Parting == \E i \in Keys : MissingTolerated(i) \/ TransformedUnparsed(i)

====
